---- MODULE Spec2Model ----
(***************************************************************************)
(* Model of BotCommander (migrated_functionality/src/bot_commander.py):    *)
(* the command registry, the execution store, the asyncio execution        *)
(* pipeline of execute_command (split at its await points), shutdown(),    *)
(* and the pure safety-constraint validator.                               *)
(*                                                                         *)
(*   Spec        concurrent invocations and shutdown(), clock standing     *)
(*               still (no control flow depends on a time value)           *)
(*   TimedSpec   the same actions with the clock running                   *)
(*   FairSpec    TimedSpec, every awaited call eventually answering        *)
(*   HangSpec    TimedSpec, every awaited call but the handler's answering *)
(*   ParamSpec   one invocation over every registered command and every    *)
(*               parameter map                                             *)
(*   LoadSpec    TimedSpec over the sets of handler modules that fail to   *)
(*               import at construction                                    *)
(*   SafetySpec  _validate_safety_constraints over all its inputs          *)
(*   RegistrySpec  the registration loop of the constructor over lists of  *)
(*               entries, then list_bot_commands over its filters          *)
(***************************************************************************)
EXTENDS Integers, Sequences, FiniteSets, TLC

VARIABLES
    command_registry,   \* self.command_registry: key -> BotCommand
    active_executions,  \* self.active_executions: the execution ids stored
    bot_categories,     \* self.bot_categories: category -> handler present
    missing_modules,    \* categories whose handler module cannot be imported
    heap,               \* every CommandExecution object ever created, by id
    pc,                 \* position of each execute_command invocation
    args,               \* arguments of each invocation
    eid,                \* the execution object an invocation holds (0: none)
    raised,             \* exception message an invocation raised to its caller
    log,                \* per invocation: outbound calls and their outcomes
    now,                \* time.time(): the latest reading of the clock
    sv_command,         \* safety-validator check: the command under test
    sv_parameters,      \* safety-validator check: the parameter map
    sv_result,          \* safety-validator check: the verdict computed
    all_commands,       \* _register_bot_commands: entries the loop has yet to register
    list_category,      \* list_bot_commands: the filter of the latest call
    list_commands       \* list_bot_commands: what the latest call returned

vars == <<command_registry, active_executions, bot_categories, missing_modules,
          heap, pc, args, eid, raised, log, now,
          sv_command, sv_parameters, sv_result,
          all_commands, list_category, list_commands>>

engineVars == <<command_registry, active_executions, bot_categories,
                missing_modules, heap, pc, args, eid, raised, log, now>>

svVars == <<sv_command, sv_parameters, sv_result>>

regVars == <<all_commands, list_category, list_commands>>

----------------------------------------------------------------------------
\* Bounds of the model

MaxTasks == 2        \* execute_command invocations, clock standing still
MaxTimedTasks == 1   \* execute_command invocations while the clock runs
MaxClock == 1        \* largest reading of the running clock

Tasks == 1..MaxTasks
TimedTasks == 1..MaxTimedTasks
ExecIds == 1..MaxTasks

\* values a reading of time.time() can return, up to limit: the clock never
\* runs backwards
Readings(limit) == now..limit

----------------------------------------------------------------------------
\* Optional values (Python None / a value)

None == {}
Some(x) == {x}

----------------------------------------------------------------------------
\* Parameter maps: dict.get on the three safety flags

FlagKeys == {"human_approval", "audit_enabled", "rollback_enabled"}
FlagValues == {"absent", "True", "False", "None", "text", "empty"}

\* Python truthiness of a flag value
Truthy(v) == v \in {"True", "text"}

\* parameters.get(key, default); the default of a bare get() is None
Get(parameters, key, default) ==
    IF parameters[key] = "absent" THEN default ELSE parameters[key]

EmptyParams == [k \in FlagKeys |-> "absent"]

AllParams == [FlagKeys -> FlagValues]

\* parameter maps supplied to execute_command on a registered command
EngineParams ==
    { EmptyParams,
      [EmptyParams EXCEPT !["human_approval"] = "True"],
      [EmptyParams EXCEPT !["human_approval"] = "True", !["audit_enabled"] = "False"] }

----------------------------------------------------------------------------
\* BotCategory and the registry

BotCategoryValues ==
    {"chatbots", "trading_bots", "social_media_bots", "rpa_bots", "game_bots",
     "red_team_bots", "research_bots", "creative_bots", "physical_world_bots",
     "meta_bots"}

AllConstraints == {"human_oversight", "audit_trail", "rollback_capability"}

\* f"{category}:{command_id}"
CommandKey(category, command_id) == <<category, ":", command_id>>

BotCommand(category, command_id, timeout) ==
    [command_id |-> command_id, category |-> category,
     execution_timeout |-> timeout,
     retry_policy |-> [max_retries |-> 3, backoff_factor |-> 2],
     safety_constraints |-> AllConstraints]

\* the part of the built-in registry the model carries
RegisteredCommands ==
    { BotCommand("chatbots", "empathy_engine", 30),
      BotCommand("trading_bots", "risk_warden", 60) }

_register_bot_commands ==
    [key \in {CommandKey(c.category, c.command_id) : c \in RegisteredCommands} |->
        CHOOSE c \in RegisteredCommands : CommandKey(c.category, c.command_id) = key]

\* the calls of execute_command the model makes: category, command_id, parameters
Call(category, command_id, parameters) ==
    [category |-> category, command_id |-> command_id, parameters |-> parameters]

\* the handler modules absent from the source tree
SourceMissing == {"social_media_bots", "research_bots"}

\* every category whose module imports gets its handler
Mutant_initialize_bot_categories_partial(missing) ==
    [c \in BotCategoryValues |-> c \notin missing]

\* _initialize_bot_categories: the ten imports come first, so either the dict
\* of ten handlers is assigned or (ImportError) the ten entries are set to None
_initialize_bot_categories(missing) ==
    [c \in BotCategoryValues |-> missing = {}]

----------------------------------------------------------------------------
\* Message texts (sequences of fragments; concatenation is \o)

MsgCVF == "Compliance validation failed: "
MsgSCV == "Safety constraint violation: "
MsgHuman == "Human oversight required but not provided"
MsgAudit == "Audit trail required but disabled"
MsgRollback == "Rollback capability required but disabled"
MsgSafe == "All safety constraints satisfied"
MsgNoHandler == "No handler available for category: "
MsgNotFound == "Command not found: "
MsgPolicy == "denied by policy"
MsgValidatorDown == "validator unavailable"
MsgBoom == "handler exploded"
MsgMetricsDown == "metrics backend down"
MsgHistoryDown == "history store down"

\* s occurs in the text t
Contains(t, s) == \E i \in 1..Len(t) : t[i] = s

ApprovedParams == [EmptyParams EXCEPT !["human_approval"] = "True"]

Calls ==
    { Call("chatbots", "empathy_engine", p) : p \in EngineParams }
    \cup { Call("chatbots", "nonexistent", ApprovedParams),
           Call("chat", "empathy_engine", ApprovedParams) }

----------------------------------------------------------------------------
\* Safety validator

\* audit trail checked before human oversight
Mutant_validate_safety_constraints(command, parameters) ==
    IF "audit_trail" \in command.safety_constraints
       /\ ~Truthy(Get(parameters, "audit_enabled", "True"))
    THEN [approved |-> FALSE, reason |-> <<MsgAudit>>]
    ELSE IF "human_oversight" \in command.safety_constraints
            /\ ~Truthy(Get(parameters, "human_approval", "None"))
    THEN [approved |-> FALSE, reason |-> <<MsgHuman>>]
    ELSE IF "rollback_capability" \in command.safety_constraints
            /\ ~Truthy(Get(parameters, "rollback_enabled", "True"))
    THEN [approved |-> FALSE, reason |-> <<MsgRollback>>]
    ELSE [approved |-> TRUE, reason |-> <<MsgSafe>>]

\* a missing human_approval counts as given
Mutant_validate_safety_constraints_default(command, parameters) ==
    IF "human_oversight" \in command.safety_constraints
       /\ ~Truthy(Get(parameters, "human_approval", "True"))
    THEN [approved |-> FALSE, reason |-> <<MsgHuman>>]
    ELSE IF "audit_trail" \in command.safety_constraints
            /\ ~Truthy(Get(parameters, "audit_enabled", "True"))
    THEN [approved |-> FALSE, reason |-> <<MsgAudit>>]
    ELSE IF "rollback_capability" \in command.safety_constraints
            /\ ~Truthy(Get(parameters, "rollback_enabled", "True"))
    THEN [approved |-> FALSE, reason |-> <<MsgRollback>>]
    ELSE [approved |-> TRUE, reason |-> <<MsgSafe>>]

_validate_safety_constraints(command, parameters) ==
    IF "human_oversight" \in command.safety_constraints
       /\ ~Truthy(Get(parameters, "human_approval", "None"))
    THEN [approved |-> FALSE, reason |-> <<MsgHuman>>]
    ELSE IF "audit_trail" \in command.safety_constraints
            /\ ~Truthy(Get(parameters, "audit_enabled", "True"))
    THEN [approved |-> FALSE, reason |-> <<MsgAudit>>]
    ELSE IF "rollback_capability" \in command.safety_constraints
            /\ ~Truthy(Get(parameters, "rollback_enabled", "True"))
    THEN [approved |-> FALSE, reason |-> <<MsgRollback>>]
    ELSE [approved |-> TRUE, reason |-> <<MsgSafe>>]

----------------------------------------------------------------------------
\* Outcomes of the external collaborators

ValidatorOutcomes == {"approve", "reject", "raise"}
HandlerOutcomes ==
    { [kind |-> "ok", result |-> Some("r1")],
      [kind |-> "ok", result |-> None],          \* handler returns None
      [kind |-> "raise", result |-> None] }
NotifyOutcomes == {"ok", "raise"}

----------------------------------------------------------------------------
\* validate_compliance, from the point where compliance_manager.validate_command
\* has returned or raised (out)

\* the validator's verdict is ignored once the safety constraints hold
Mutant_validate_compliance_ignores_verdict(out, command, parameters) ==
    IF out = "raise"
    THEN [status |-> "error", reason |-> <<MsgCVF, MsgValidatorDown>>]
    ELSE LET safety_result == _validate_safety_constraints(command, parameters)
         IN  IF ~safety_result.approved
             THEN [status |-> "rejected",
                   reason |-> <<MsgSCV>> \o safety_result.reason]
             ELSE [status |-> "approved", reason |-> <<MsgPolicy>>]

\* a raising validator is treated as an approval (fail-open)
Mutant_validate_compliance_fail_open(out, command, parameters) ==
    LET safety_result == _validate_safety_constraints(command, parameters)
    IN  IF ~safety_result.approved
        THEN [status |-> "rejected",
              reason |-> <<MsgSCV>> \o safety_result.reason]
        ELSE [status |-> IF out = "reject" THEN "rejected" ELSE "approved",
              reason |-> <<MsgPolicy>>]

validate_compliance(out, command, parameters) ==
    IF out = "raise"
    THEN [status |-> "error", reason |-> <<MsgCVF, MsgValidatorDown>>]
    ELSE LET safety_result == _validate_safety_constraints(command, parameters)
         IN  IF ~safety_result.approved
             THEN [status |-> "rejected",
                   reason |-> <<MsgSCV>> \o safety_result.reason]
             ELSE [status |-> IF out = "approve" THEN "approved" ELSE "rejected",
                   reason |-> <<MsgPolicy>>]

\* log entries validate_compliance leaves behind
ValidationLog(out, command, parameters) ==
    IF out = "raise"
    THEN <<"validate_command:raise">>
    ELSE <<"validate_command:" \o out,
           IF _validate_safety_constraints(command, parameters).approved
           THEN "safety:approved" ELSE "safety:rejected">>

----------------------------------------------------------------------------
\* CommandExecution

CommandExecution(id, command, parameters, time) ==
    [execution_id |-> id, command |-> command, parameters |-> parameters,
     status |-> "pending", start_time |-> time, end_time |-> None,
     result |-> None, error |-> None, compliance_status |-> "pending",
     performance_metrics |-> None]

\* the finally block of execute_command, up to the first notification
\* the finally block records the metrics but leaves end_time unset
Mutant_Finally_no_end_time(execution, time) ==
    [execution EXCEPT
        !.performance_metrics =
            Some([execution_time |-> time - execution.start_time,
                  memory_usage |-> 0, cpu_usage |-> 0])]

Finally(execution, time) ==
    [execution EXCEPT
        !.end_time = Some(time),
        !.performance_metrics =
            Some([execution_time |-> time - execution.start_time,
                  memory_usage |-> 0, cpu_usage |-> 0])]

\* the except branch around the handler call
HandlerFailed(execution, message) ==
    [execution EXCEPT !.status = "failed", !.error = Some(message)]

\* the statements after a successful handler call
HandlerSucceeded(execution, result) ==
    [execution EXCEPT !.result = result, !.status = "completed"]

\* the verdict is recorded but the execution is sent on as running
Mutant_ValidationFailed_runs(execution, compliance_result, time) ==
    [execution EXCEPT
        !.compliance_status = compliance_result.status,
        !.status = "running",
        !.error = Some(<<MsgCVF>> \o compliance_result.reason),
        !.end_time = Some(time)]

\* the early return on a validation verdict other than approved
ValidationFailed(execution, compliance_result, time) ==
    [execution EXCEPT
        !.compliance_status = compliance_result.status,
        !.status = "failed",
        !.error = Some(<<MsgCVF>> \o compliance_result.reason),
        !.end_time = Some(time)]

Terminal == {"completed", "failed", "cancelled"}

----------------------------------------------------------------------------
\* Queries

get_execution_status(execution_id) ==
    IF execution_id \in active_executions THEN Some(heap[execution_id]) ELSE None

get_active_executions == {heap[id] : id \in active_executions}

----------------------------------------------------------------------------
\* CursorBotIntegration.stream_execution_results on this commander

MsgExecutionNotFound == "IZA OS: Execution not found"
MsgNoLogs == "'CommandExecution' object has no attribute 'logs'"
MsgNoAsyncio == "name 'asyncio' is not defined"

\* the dict returned by the except branch and by the not-found branch
StreamError(message) ==
    [status |-> "error", result |-> None, error |-> Some(<<message>>)]

\* One pass of the polling loop; every pass ends in a return. CommandExecution
\* has no logs attribute, so both the websocket update and the final dict
\* raise AttributeError; the module never imports asyncio, so the sleep
\* raises NameError; each is caught by the except branch.
stream_execution_results(execution_id, websocket) ==
    LET execution == get_execution_status(execution_id)
    IN  IF execution = None
        THEN StreamError(MsgExecutionNotFound)
        ELSE IF websocket
        THEN StreamError(MsgNoLogs)
        ELSE IF \E e \in execution : e.status \in {"completed", "failed", "cancelled"}
        THEN StreamError(MsgNoLogs)
        ELSE StreamError(MsgNoAsyncio)

----------------------------------------------------------------------------
\* CursorBotIntegration.validate_command_syntax, from the ParsedCommand on

valid_categories ==
    {"chat", "trading", "social_media", "rpa", "game", "red_team", "research",
     "creative", "physical_world", "meta"}

MsgInvalidCategory == "IZA OS: Invalid category"
MsgEmptyCommand == "IZA OS: Command name cannot be empty"
MsgSyntaxValid == "IZA OS: Command syntax is valid"

\* what parse_bot_command can hand over: category (stripped, lower case) and
\* command (stripped)
ParsedCommand(category, command) == [category |-> category, command |-> command]

ParsedCommands ==
    { ParsedCommand(category, command) :
        category \in valid_categories \cup BotCategoryValues \cup {"bogus"},
        command \in {"empathy_engine", "risk_warden", "nonexistent", ""} }

\* the categories accepted are the BotCategory values
Mutant_validate_command_syntax_enum(parsed) ==
    IF parsed.category \notin BotCategoryValues
    THEN [is_valid |-> FALSE, message |-> MsgInvalidCategory]
    ELSE IF parsed.command = ""
    THEN [is_valid |-> FALSE, message |-> MsgEmptyCommand]
    ELSE [is_valid |-> TRUE, message |-> MsgSyntaxValid]

validate_command_syntax(parsed) ==
    IF parsed.category \notin valid_categories
    THEN [is_valid |-> FALSE, message |-> MsgInvalidCategory]
    ELSE IF parsed.command = ""
    THEN [is_valid |-> FALSE, message |-> MsgEmptyCommand]
    ELSE [is_valid |-> TRUE, message |-> MsgSyntaxValid]

----------------------------------------------------------------------------
\* execute_command, one action per stretch between two awaits

\* the record is created and stored before the registry is consulted
Mutant_CommandNotFound(t, category, command_id, parameters, time) ==
    /\ CommandKey(category, command_id) \notin DOMAIN command_registry
    /\ pc' = [pc EXCEPT ![t] = "raised"]
    /\ raised' = [raised EXCEPT ![t] =
                    Some(<<MsgNotFound>> \o CommandKey(category, command_id))]
    /\ LET id == Cardinality(DOMAIN heap) + 1
       IN  /\ heap' = heap @@ (id :> CommandExecution(id,
                          BotCommand(category, command_id, 30), parameters, time))
           /\ active_executions' = active_executions \cup {id}
    /\ now' = time
    /\ UNCHANGED <<eid, log>>

\* lookup failure: ValueError re-raised by the outer handler
CommandNotFound(t, category, command_id, parameters, time) ==
    /\ CommandKey(category, command_id) \notin DOMAIN command_registry
    /\ pc' = [pc EXCEPT ![t] = "raised"]
    /\ raised' = [raised EXCEPT ![t] =
                    Some(<<MsgNotFound>> \o CommandKey(category, command_id))]
    /\ UNCHANGED <<active_executions, heap, eid, log, now>>

\* the record is created but not put into the store before the first await
Mutant_CommandStarted_not_stored(t, category, command_id, parameters, time) ==
    /\ CommandKey(category, command_id) \in DOMAIN command_registry
    /\ LET id == Cardinality(DOMAIN heap) + 1
           command == command_registry[CommandKey(category, command_id)]
       IN  /\ heap' = heap @@ (id :> CommandExecution(id, command, parameters, time))
           /\ active_executions' = active_executions
           /\ eid' = [eid EXCEPT ![t] = id]
    /\ now' = time
    /\ log' = [log EXCEPT ![t] = <<"validate_command:call">>]
    /\ pc' = [pc EXCEPT ![t] = "await_compliance"]
    /\ UNCHANGED raised

\* record created and stored; suspended in compliance_manager.validate_command
CommandStarted(t, category, command_id, parameters, time) ==
    /\ CommandKey(category, command_id) \in DOMAIN command_registry
    /\ LET id == Cardinality(DOMAIN heap) + 1
           command == command_registry[CommandKey(category, command_id)]
       IN  /\ heap' = heap @@ (id :> CommandExecution(id, command, parameters, time))
           /\ active_executions' = active_executions \cup {id}
           /\ eid' = [eid EXCEPT ![t] = id]
    /\ now' = time
    /\ log' = [log EXCEPT ![t] = <<"validate_command:call">>]
    /\ pc' = [pc EXCEPT ![t] = "await_compliance"]
    /\ UNCHANGED raised

Start(t, category, command_id, parameters, time) ==
    /\ pc[t] = "idle"
    /\ \A u \in Tasks : u < t => pc[u] # "idle"   \* invocations numbered in call order
    /\ args' = [args EXCEPT ![t] = Call(category, command_id, parameters)]
    /\ \/ CommandNotFound(t, category, command_id, parameters, time)
       \/ CommandStarted(t, category, command_id, parameters, time)
    /\ UNCHANGED <<command_registry, bot_categories, missing_modules, svVars, regVars>>

\* the handler lookup of the inner try: TRUE when a handler is there to call
HandlerAvailable(category) ==
    category \in BotCategoryValues /\ bot_categories[category]

\* validate_command returned or raised: verdict, then dispatch
ComplianceReturns(t, out, time) ==
    /\ pc[t] = "await_compliance"
    /\ LET execution == heap[eid[t]]
           compliance_result ==
               validate_compliance(out, execution.command, args[t].parameters)
           vlog == log[t] \o ValidationLog(out, execution.command, args[t].parameters)
           running == [execution EXCEPT !.compliance_status = "approved",
                                        !.status = "running"]
       IN  IF compliance_result.status # "approved"
           THEN /\ heap' = [heap EXCEPT ![eid[t]] =
                               ValidationFailed(execution, compliance_result, time)]
                /\ log' = [log EXCEPT ![t] = vlog]
                /\ pc' = [pc EXCEPT ![t] = "returned"]
                /\ now' = time
           ELSE IF ~HandlerAvailable(args[t].category)
           THEN /\ heap' = [heap EXCEPT ![eid[t]] =
                               Finally(HandlerFailed(running,
                                   <<MsgNoHandler, args[t].category>>), time)]
                /\ log' = [log EXCEPT ![t] = vlog \o <<"metrics:call">>]
                /\ pc' = [pc EXCEPT ![t] = "await_metrics"]
                /\ now' = time
           ELSE /\ heap' = [heap EXCEPT ![eid[t]] = running]
                /\ log' = [log EXCEPT ![t] = vlog \o <<"handler:call">>]
                /\ pc' = [pc EXCEPT ![t] = "await_handler"]
                /\ now' = now       \* the reading of line 476 is never used
    /\ UNCHANGED <<command_registry, active_executions, bot_categories, missing_modules, args,
                   eid, raised, svVars, regVars>>

\* the finished execution is dropped from the store when the handler returns
Mutant_HandlerReturns_expires(t, out, time) ==
    /\ pc[t] = "await_handler"
    /\ LET execution == heap[eid[t]]
       IN  heap' = [heap EXCEPT ![eid[t]] =
                       Finally(IF out.kind = "ok"
                               THEN HandlerSucceeded(execution, out.result)
                               ELSE HandlerFailed(execution, <<MsgBoom>>),
                               time)]
    /\ active_executions' = active_executions \ {eid[t]}
    /\ log' = [log EXCEPT ![t] = @ \o <<"handler:" \o out.kind, "metrics:call">>]
    /\ pc' = [pc EXCEPT ![t] = "await_metrics"]
    /\ now' = time
    /\ UNCHANGED <<command_registry, bot_categories, missing_modules, args, eid, raised, svVars, regVars>>

\* a handler that raised is called again, up to max_retries times
Mutant_HandlerReturns_retries(t, out, time) ==
    /\ pc[t] = "await_handler"
    /\ LET execution == heap[eid[t]]
           retry == /\ out.kind = "raise"
                    /\ Cardinality({i \in 1..Len(log[t]) : log[t][i] = "handler:call"})
                          <= execution.command.retry_policy.max_retries
       IN  IF retry
           THEN /\ log' = [log EXCEPT ![t] = @ \o <<"handler:raise", "handler:call">>]
                /\ UNCHANGED <<heap, pc>>
           ELSE /\ heap' = [heap EXCEPT ![eid[t]] =
                               Finally(IF out.kind = "ok"
                                       THEN HandlerSucceeded(execution, out.result)
                                       ELSE HandlerFailed(execution, <<MsgBoom>>),
                                       time)]
                /\ log' = [log EXCEPT ![t] =
                              @ \o <<"handler:" \o out.kind, "metrics:call">>]
                /\ pc' = [pc EXCEPT ![t] = "await_metrics"]
    /\ now' = time
    /\ UNCHANGED <<command_registry, active_executions, bot_categories, missing_modules, args,
                   eid, raised, svVars, regVars>>

\* the finished execution is put back into the store
Mutant_HandlerReturns_reinserts(t, out, time) ==
    /\ pc[t] = "await_handler"
    /\ LET execution == heap[eid[t]]
       IN  heap' = [heap EXCEPT ![eid[t]] =
                       Finally(IF out.kind = "ok"
                               THEN HandlerSucceeded(execution, out.result)
                               ELSE HandlerFailed(execution, <<MsgBoom>>),
                               time)]
    /\ active_executions' = active_executions \cup {eid[t]}
    /\ log' = [log EXCEPT ![t] = @ \o <<"handler:" \o out.kind, "metrics:call">>]
    /\ pc' = [pc EXCEPT ![t] = "await_metrics"]
    /\ now' = time
    /\ UNCHANGED <<command_registry, bot_categories, missing_modules, args,
                   eid, raised, svVars, regVars>>

\* handler.execute_command returned or raised: outcome, finally, metrics call
HandlerReturns(t, out, time) ==
    /\ pc[t] = "await_handler"
    /\ LET execution == heap[eid[t]]
       IN  heap' = [heap EXCEPT ![eid[t]] =
                       Finally(IF out.kind = "ok"
                               THEN HandlerSucceeded(execution, out.result)
                               ELSE HandlerFailed(execution, <<MsgBoom>>),
                               time)]
    /\ log' = [log EXCEPT ![t] = @ \o <<"handler:" \o out.kind, "metrics:call">>]
    /\ pc' = [pc EXCEPT ![t] = "await_metrics"]
    /\ now' = time
    /\ UNCHANGED <<command_registry, active_executions, bot_categories, missing_modules, args,
                   eid, raised, svVars, regVars>>

\* record_command_execution returned or raised
MetricsReturns(t, out) ==
    /\ pc[t] = "await_metrics"
    /\ IF out = "ok"
       THEN /\ log' = [log EXCEPT ![t] = @ \o <<"metrics:ok", "history:call">>]
            /\ pc' = [pc EXCEPT ![t] = "await_history"]
            /\ UNCHANGED raised
       ELSE /\ log' = [log EXCEPT ![t] = @ \o <<"metrics:raise">>]
            /\ pc' = [pc EXCEPT ![t] = "raised"]
            /\ raised' = [raised EXCEPT ![t] = Some(<<MsgMetricsDown>>)]
    /\ UNCHANGED <<command_registry, active_executions, bot_categories, missing_modules, heap,
                   args, eid, now, svVars, regVars>>

\* store_command_execution returned or raised
HistoryReturns(t, out) ==
    /\ pc[t] = "await_history"
    /\ IF out = "ok"
       THEN /\ log' = [log EXCEPT ![t] = @ \o <<"history:ok">>]
            /\ pc' = [pc EXCEPT ![t] = "returned"]
            /\ UNCHANGED raised
       ELSE /\ log' = [log EXCEPT ![t] = @ \o <<"history:raise">>]
            /\ pc' = [pc EXCEPT ![t] = "raised"]
            /\ raised' = [raised EXCEPT ![t] = Some(<<MsgHistoryDown>>)]
    /\ UNCHANGED <<command_registry, active_executions, bot_categories, missing_modules, heap,
                   args, eid, now, svVars, regVars>>

----------------------------------------------------------------------------
\* shutdown(): no await inside, so it runs in one step. The loop follows the
\* dict's insertion order and reads the clock once per running execution.

Running == {id \in active_executions : heap[id].status = "running"}

\* running records are cancelled but the store is not cleared
Mutant_Shutdown_keeps_store(stamp) ==
    /\ \A i, j \in Running : i < j => stamp[i] <= stamp[j]
    /\ heap' = [id \in DOMAIN heap |->
                  IF id \in Running
                  THEN [heap[id] EXCEPT !.status = "cancelled",
                                        !.end_time = Some(stamp[id])]
                  ELSE heap[id]]
    /\ active_executions' = active_executions
    /\ now' = now
    /\ UNCHANGED <<command_registry, bot_categories, missing_modules, pc, args, eid, raised,
                   log, svVars, regVars>>

\* running records are marked cancelled but get no end_time
Mutant_Shutdown_no_end_time(stamp) ==
    /\ \A i, j \in Running : i < j => stamp[i] <= stamp[j]
    /\ heap' = [id \in DOMAIN heap |->
                  IF id \in Running
                  THEN [heap[id] EXCEPT !.status = "cancelled"]
                  ELSE heap[id]]
    /\ active_executions' = {}
    /\ now' = now
    /\ UNCHANGED <<command_registry, bot_categories, missing_modules, pc, args, eid, raised,
                   log, svVars, regVars>>

\* shutdown() cancels every stored execution that has not finished, pending
\* ones included
Mutant_Shutdown_cancels_pending(stamp) ==
    /\ LET Open == {id \in active_executions :
                        heap[id].status \in {"pending", "running"}}
       IN  heap' = [id \in DOMAIN heap |->
                      IF id \in Open
                      THEN [heap[id] EXCEPT !.status = "cancelled",
                                            !.end_time = Some(now)]
                      ELSE heap[id]]
    /\ active_executions' = {}
    /\ now' = now
    /\ UNCHANGED <<command_registry, bot_categories, missing_modules, pc, args, eid, raised,
                   log, svVars, regVars>>

Shutdown(stamp) ==
    /\ \A i, j \in Running : i < j => stamp[i] <= stamp[j]
    /\ heap' = [id \in DOMAIN heap |->
                  IF id \in Running
                  THEN [heap[id] EXCEPT !.status = "cancelled",
                                        !.end_time = Some(stamp[id])]
                  ELSE heap[id]]
    /\ active_executions' = {}
    /\ now' = IF Running = {} THEN now
              ELSE CHOOSE m \in {stamp[id] : id \in Running} :
                      \A id \in Running : stamp[id] <= m
    /\ UNCHANGED <<command_registry, bot_categories, missing_modules, pc, args, eid, raised,
                   log, svVars, regVars>>

----------------------------------------------------------------------------
\* The engine

NoArgs == Call("", "", EmptyParams)

Init ==
    /\ command_registry = _register_bot_commands
    /\ active_executions = {}
    /\ missing_modules \in {{}, SourceMissing}
    /\ bot_categories = _initialize_bot_categories(missing_modules)
    /\ heap = <<>>
    /\ pc = [t \in Tasks |-> "idle"]
    /\ args = [t \in Tasks |-> NoArgs]
    /\ eid = [t \in Tasks |-> 0]
    /\ raised = [t \in Tasks |-> None]
    /\ log = [t \in Tasks |-> <<>>]
    /\ now = 0
    /\ sv_command = BotCommand("chatbots", "empathy_engine", 30)
    /\ sv_parameters = EmptyParams
    /\ sv_result = None
    /\ all_commands = <<>>
    /\ list_category = None
    /\ list_commands = None

\* concurrent invocations; every reading of the clock returns the same value
Next ==
    \/ \E t \in Tasks, call \in Calls, time \in Readings(now) :
          Start(t, call.category, call.command_id, call.parameters, time)
    \/ \E t \in Tasks, out \in ValidatorOutcomes, time \in Readings(now) :
          ComplianceReturns(t, out, time)
    \/ \E t \in Tasks, out \in HandlerOutcomes, time \in Readings(now) :
          HandlerReturns(t, out, time)
    \/ \E t \in Tasks, out \in NotifyOutcomes : MetricsReturns(t, out)
    \/ \E t \in Tasks, out \in NotifyOutcomes : HistoryReturns(t, out)
    \/ \E stamp \in [Running -> Readings(now)] : Shutdown(stamp)

Spec == Init /\ [][Next]_vars

\* fewer invocations, with the clock running between the readings
TimedNext ==
    \/ \E t \in TimedTasks, call \in Calls, time \in Readings(MaxClock) :
          Start(t, call.category, call.command_id, call.parameters, time)
    \/ \E t \in TimedTasks, out \in ValidatorOutcomes, time \in Readings(MaxClock) :
          ComplianceReturns(t, out, time)
    \/ \E t \in TimedTasks, out \in HandlerOutcomes, time \in Readings(MaxClock) :
          HandlerReturns(t, out, time)
    \/ \E t \in TimedTasks, out \in NotifyOutcomes : MetricsReturns(t, out)
    \/ \E t \in TimedTasks, out \in NotifyOutcomes : HistoryReturns(t, out)
    \/ \E stamp \in [Running -> Readings(MaxClock)] : Shutdown(stamp)

TimedSpec == Init /\ [][TimedNext]_vars

\* the event loop resumes an invocation once the call it awaits has returned
\* or raised: the three collaborators other than the handler always answer
AnswersArrive(t) ==
    /\ WF_vars(\E out \in ValidatorOutcomes, time \in Readings(MaxClock) :
                  ComplianceReturns(t, out, time))
    /\ WF_vars(\E out \in NotifyOutcomes : MetricsReturns(t, out))
    /\ WF_vars(\E out \in NotifyOutcomes : HistoryReturns(t, out))

\* the handler's execute_command returns or raises too
HandlerAnswers(t) ==
    WF_vars(\E out \in HandlerOutcomes, time \in Readings(MaxClock) :
               HandlerReturns(t, out, time))

\* every awaited call eventually returns or raises
FairSpec ==
    TimedSpec /\ \A t \in TimedTasks : AnswersArrive(t) /\ HandlerAnswers(t)

\* a handler call may never return: the await at line 487 has no timeout
HangSpec == TimedSpec /\ \A t \in TimedTasks : AnswersArrive(t)

----------------------------------------------------------------------------
\* One invocation of execute_command over every registered command and every
\* parameter map, clock standing still

AllCalls ==
    { Call(c.category, c.command_id, p) : c \in RegisteredCommands, p \in AllParams }

ParamNext ==
    \/ \E call \in AllCalls, time \in Readings(now) :
          Start(1, call.category, call.command_id, call.parameters, time)
    \/ \E out \in ValidatorOutcomes, time \in Readings(now) :
          ComplianceReturns(1, out, time)
    \/ \E out \in HandlerOutcomes, time \in Readings(now) :
          HandlerReturns(1, out, time)
    \/ \E out \in NotifyOutcomes : MetricsReturns(1, out)
    \/ \E out \in NotifyOutcomes : HistoryReturns(1, out)
    \/ \E stamp \in [Running -> Readings(now)] : Shutdown(stamp)

ParamSpec == Init /\ [][ParamNext]_vars

----------------------------------------------------------------------------
\* Handler loading over the sets of modules that fail to import, followed by
\* the actions of TimedSpec

\* which handler modules fail to import: none, one, the two absent ones, all
ImportCases ==
    { {}, {"chatbots"}, {"meta_bots"}, SourceMissing, BotCategoryValues }

\* get_bot_categories(): per category, handler_available and command_count
get_bot_categories ==
    [category \in BotCategoryValues |->
        [category |-> category,
         handler_available |-> bot_categories[category],
         command_count |->
             Cardinality({key \in DOMAIN command_registry :
                             command_registry[key].category = category})]]

LoadInit ==
    /\ command_registry = _register_bot_commands
    /\ active_executions = {}
    /\ missing_modules \in ImportCases
    /\ bot_categories = _initialize_bot_categories(missing_modules)
    /\ heap = <<>>
    /\ pc = [t \in Tasks |-> "idle"]
    /\ args = [t \in Tasks |-> NoArgs]
    /\ eid = [t \in Tasks |-> 0]
    /\ raised = [t \in Tasks |-> None]
    /\ log = [t \in Tasks |-> <<>>]
    /\ now = 0
    /\ sv_command = BotCommand("chatbots", "empathy_engine", 30)
    /\ sv_parameters = EmptyParams
    /\ sv_result = None
    /\ all_commands = <<>>
    /\ list_category = None
    /\ list_commands = None

LoadSpec == LoadInit /\ [][TimedNext]_vars

----------------------------------------------------------------------------
\* The safety validator on its own: inputs drawn in the initial state

SafetyCommands ==
    { [BotCommand("chatbots", "empathy_engine", 30)
          EXCEPT !.safety_constraints = cs] : cs \in SUBSET AllConstraints }

SvValidate ==
    /\ sv_result = None
    /\ sv_result' = Some(_validate_safety_constraints(sv_command, sv_parameters))
    /\ UNCHANGED <<engineVars, sv_command, sv_parameters, regVars>>

SafetyInit ==
    /\ command_registry = _register_bot_commands
    /\ active_executions = {}
    /\ missing_modules = {}
    /\ bot_categories = _initialize_bot_categories(missing_modules)
    /\ heap = <<>>
    /\ pc = [t \in Tasks |-> "idle"]
    /\ args = [t \in Tasks |-> NoArgs]
    /\ eid = [t \in Tasks |-> 0]
    /\ raised = [t \in Tasks |-> None]
    /\ log = [t \in Tasks |-> <<>>]
    /\ now = 0
    /\ sv_command \in SafetyCommands
    /\ sv_parameters \in AllParams
    /\ sv_result = None
    /\ all_commands = <<>>
    /\ list_category = None
    /\ list_commands = None

SafetyNext == SvValidate

SafetySpec == SafetyInit /\ [][SafetyNext]_vars

----------------------------------------------------------------------------
\* The registry on its own: the loop of _register_bot_commands, one entry per
\* step, over lists of entries drawn in the initial state; list_bot_commands
\* once the constructor has returned.

MaxRegs == 3

\* an entry of a category's command list, with the category it is listed under
CommandData(category, command_id, timeout) ==
    [category |-> category, command_id |-> command_id, timeout |-> timeout]

\* two built-in entries, a third of the same category, and an entry with the
\* key of the first and another timeout
RegistrationInputs ==
    { CommandData("chatbots", "empathy_engine", 30),
      CommandData("chatbots", "memory_guardian", 15),
      CommandData("trading_bots", "risk_warden", 60),
      CommandData("chatbots", "empathy_engine", 60) }

CommandLists ==
    UNION { [1..n -> RegistrationInputs] : n \in 0..MaxRegs }

\* self.command_registry[f"{category.value}:{command_id}"] = command
RegisterCommand(registry, command) ==
    LET key == CommandKey(command.category, command.command_id)
    IN  [k \in DOMAIN registry \cup {key} |->
            IF k = key THEN command ELSE registry[k]]

\* the dict list_bot_commands appends for one command
CommandMetadata(command) ==
    [command_id |-> command.command_id,
     category |-> command.category,
     execution_timeout |-> command.execution_timeout,
     safety_constraints |-> command.safety_constraints]

\* the filter is ignored: every command is listed
Mutant_list_bot_commands_unfiltered(category) ==
    { CommandMetadata(command_registry[key]) : key \in DOMAIN command_registry }

\* list_bot_commands(category): category is None (no filter) or Some(text);
\* the entries are distinct, their order in the list is not modelled
list_bot_commands(category) ==
    { CommandMetadata(command_registry[key]) :
        key \in { k \in DOMAIN command_registry :
                    category = None \/ command_registry[k].category \in category } }

\* the filters list_bot_commands is called with
CategoryFilters ==
    {None, Some("chatbots"), Some("trading_bots"), Some("trading"), Some("chat")}

\* one turn of the inner loop of _register_bot_commands
RegisterNext ==
    /\ all_commands # <<>>
    /\ LET command_data == Head(all_commands)
       IN  command_registry' =
               RegisterCommand(command_registry,
                               BotCommand(command_data.category,
                                          command_data.command_id,
                                          command_data.timeout))
    /\ all_commands' = Tail(all_commands)
    /\ UNCHANGED <<active_executions, bot_categories, missing_modules, heap, pc, args, eid,
                   raised, log, now, svVars, list_category, list_commands>>

\* a call of list_bot_commands on the constructed object
ListBotCommands(category) ==
    /\ all_commands = <<>>
    /\ list_category' = category
    /\ list_commands' = Some(list_bot_commands(category))
    /\ UNCHANGED <<engineVars, svVars, all_commands>>

RegistryInit ==
    /\ command_registry = <<>>
    /\ active_executions = {}
    /\ missing_modules = {}
    /\ bot_categories = _initialize_bot_categories(missing_modules)
    /\ heap = <<>>
    /\ pc = [t \in Tasks |-> "idle"]
    /\ args = [t \in Tasks |-> NoArgs]
    /\ eid = [t \in Tasks |-> 0]
    /\ raised = [t \in Tasks |-> None]
    /\ log = [t \in Tasks |-> <<>>]
    /\ now = 0
    /\ sv_command = BotCommand("chatbots", "empathy_engine", 30)
    /\ sv_parameters = EmptyParams
    /\ sv_result = None
    /\ all_commands \in CommandLists
    /\ list_category = None
    /\ list_commands = None

RegistryNext ==
    \/ RegisterNext
    \/ \E category \in CategoryFilters : ListBotCommands(category)

RegistrySpec == RegistryInit /\ [][RegistryNext]_vars

----------------------------------------------------------------------------
\* Vocabulary of the properties

LogHas(t, e) == \E i \in 1..Len(log[t]) : log[t][i] = e

\* the Category Handler was invoked by invocation t
HandlerInvoked(t) == LogHas(t, "handler:call")

\* invocation t created an Execution
HasExecution(t) == eid[t] # 0

Registered(call) == CommandKey(call.category, call.command_id) \in DOMAIN command_registry

\* text of the optional error field contains fragment s
ErrorContains(execution, s) == \E m \in execution.error : Contains(m, s)

----------------------------------------------------------------------------
\* C1: when the Compliance Validator answers approved=false, the Category
\* Handler is never invoked for that execution and the call returns an
\* Execution with status failed and compliance_status rejected.
C1_RejectedNeverDispatched ==
    \A t \in Tasks :
        LogHas(t, "validate_command:reject") =>
            /\ ~HandlerInvoked(t)
            /\ pc[t] = "returned"
            /\ heap[eid[t]].status = "failed"
            /\ heap[eid[t]].compliance_status = "rejected"

\* a call whose safety constraints hold and whose validator rejected
C1_Witness ==
    \E t \in Tasks :
        /\ LogHas(t, "validate_command:reject")
        /\ LogHas(t, "safety:approved")
        /\ pc[t] = "returned"

\* C2: once an Execution's status is completed, failed or cancelled it never
\* changes again.
C2_TerminalStatusFinal ==
    [][\A id \in DOMAIN heap :
          heap[id].status \in Terminal => heap'[id].status = heap[id].status]_vars

\* C3: when validation passes and the Category Handler raises, the call does
\* not raise; it returns an Execution with status failed, error equal to the
\* raised message, result null and compliance_status approved.
C3_HandlerFailureReturned ==
    \A t \in Tasks :
        LogHas(t, "handler:raise") =>
            /\ pc[t] # "raised"
            /\ pc[t] = "returned" =>
                  /\ heap[eid[t]].status = "failed"
                  /\ heap[eid[t]].error = Some(<<MsgBoom>>)
                  /\ heap[eid[t]].result = None
                  /\ heap[eid[t]].compliance_status = "approved"

\* C4: when validate_command raises, the Category Handler is never invoked and
\* the call returns an Execution with compliance_status error, status failed
\* and an error field carrying the exception message.
C4_ValidatorErrorFailsClosed ==
    \A t \in Tasks :
        LogHas(t, "validate_command:raise") =>
            /\ ~HandlerInvoked(t)
            /\ pc[t] = "returned"
            /\ heap[eid[t]].compliance_status = "error"
            /\ heap[eid[t]].status = "failed"
            /\ ErrorContains(heap[eid[t]], MsgValidatorDown)

\* a call with approving safety flags whose validator raised
C4_Witness ==
    \E t \in Tasks :
        /\ LogHas(t, "validate_command:raise")
        /\ _validate_safety_constraints(heap[eid[t]].command, args[t].parameters).approved
        /\ pc[t] = "returned"

\* C5: when the Safety Validator's verdict is reject, the returned Execution has
\* compliance_status rejected, status failed, end_time set and an error naming
\* the safety reason, whatever the Compliance Validator did.
C5_SafetyRejectIsRejected ==
    \A t \in Tasks :
        (HasExecution(t) /\ pc[t] # "await_compliance") =>
            LET verdict == _validate_safety_constraints(heap[eid[t]].command,
                                                        args[t].parameters)
            IN  ~verdict.approved =>
                    /\ pc[t] = "returned"
                    /\ heap[eid[t]].compliance_status = "rejected"
                    /\ heap[eid[t]].status = "failed"
                    /\ heap[eid[t]].end_time # None
                    /\ ErrorContains(heap[eid[t]], verdict.reason[1])

\* C6: the Safety Validator runs before the external Compliance Validator call,
\* which is not made at all when the safety verdict is reject.
C6_SafetyBeforeCompliance ==
    \A t \in Tasks :
        \A j \in 1..Len(log[t]) :
            log[t][j] = "validate_command:call" =>
                \E i \in 1..(j - 1) : log[t][i] = "safety:approved"

\* C7: _validate_safety_constraints rejects with the human-oversight reason if
\* human_oversight is a constraint and human_approval is falsy (absent counts as
\* falsy); else with the audit-trail reason if audit_trail is a constraint and
\* audit_enabled is present and falsy; else with the rollback reason if
\* rollback_capability is a constraint and rollback_enabled is present and
\* falsy; else it approves.
C7_SafetyReference ==
    LET cs == sv_command.safety_constraints
        truthy == {"True", "text"}
        humanFails == "human_oversight" \in cs
                      /\ sv_parameters["human_approval"] \notin truthy
        auditFails == "audit_trail" \in cs
                      /\ sv_parameters["audit_enabled"] \notin (truthy \cup {"absent"})
        rollbackFails == "rollback_capability" \in cs
                      /\ sv_parameters["rollback_enabled"] \notin (truthy \cup {"absent"})
    IN  \A verdict \in sv_result :
            /\ verdict.approved = ~(humanFails \/ auditFails \/ rollbackFails)
            /\ humanFails => verdict.reason = <<MsgHuman>>
            /\ ~humanFails /\ auditFails => verdict.reason = <<MsgAudit>>
            /\ ~humanFails /\ ~auditFails /\ rollbackFails =>
                  verdict.reason = <<MsgRollback>>

\* a verdict on a command whose three checks all fail
C7_Witness ==
    /\ sv_result # None
    /\ sv_command.safety_constraints = AllConstraints
    /\ sv_parameters["human_approval"] = "absent"
    /\ sv_parameters["audit_enabled"] = "False"
    /\ sv_parameters["rollback_enabled"] = "empty"

\* C8: execute_command on an unregistered (category, command_id) raises
\* command-not-found and has no side effect: the store and the records are
\* unchanged and no validator, handler, metrics or history call is made.
C8_NotFoundNoSideEffect ==
    /\ [](\A t \in Tasks :
            (pc[t] # "idle" /\ ~Registered(args[t])) =>
                /\ pc[t] = "raised"
                /\ raised[t] = Some(<<MsgNotFound>> \o
                        CommandKey(args[t].category, args[t].command_id))
                /\ ~HasExecution(t)
                /\ log[t] = <<>>)
    /\ [][\A t \in Tasks :
            (pc[t] = "idle" /\ pc'[t] # "idle" /\ ~Registered(args'[t])) =>
                /\ active_executions' = active_executions
                /\ heap' = heap
                /\ log' = log]_vars

\* an unregistered call made while the store holds a record
C8_Witness ==
    \E t \in Tasks :
        /\ pc[t] = "raised"
        /\ ~Registered(args[t])
        /\ active_executions # {}

\* C9: when validation passes and the category has no handler, the call does
\* not raise: it returns an Execution with status failed, compliance_status
\* approved and an error naming the unavailable handler; no handler is invoked.
C9_NoHandlerReturned ==
    \A t \in Tasks :
        (/\ LogHas(t, "validate_command:approve")
         /\ LogHas(t, "safety:approved")
         /\ ~HandlerAvailable(args[t].category)) =>
            /\ ~HandlerInvoked(t)
            /\ pc[t] # "raised"
            /\ pc[t] = "returned" =>
                  /\ heap[eid[t]].status = "failed"
                  /\ heap[eid[t]].compliance_status = "approved"
                  /\ ErrorContains(heap[eid[t]], MsgNoHandler)

\* C10: when record_command_execution or store_command_execution raises, the
\* failure is swallowed: the call does not raise to its caller.
C10_NotificationFailureSwallowed ==
    \A t \in Tasks :
        (LogHas(t, "metrics:raise") \/ LogHas(t, "history:raise")) =>
            pc[t] # "raised"

----------------------------------------------------------------------------
\* number of entries e in the log of invocation t
Count(t, e) == Cardinality({i \in 1..Len(log[t]) : log[t][i] = e})

\* invocation t has returned to or raised into its caller
Finished(t) == pc[t] \in {"returned", "raised"}

\* the Execution of invocation t passed validation (it reached running)
PassedValidation(t) ==
    HasExecution(t) /\ heap[eid[t]].compliance_status = "approved"

\* C11: for every Execution that reached running, once the call is over the
\* metrics collector and the history store have each been notified exactly
\* once, metrics first, and each whether or not the other notification failed.
C11_BothNotifiedOnce ==
    \A t \in Tasks :
        (Finished(t) /\ PassedValidation(t)) =>
            /\ Count(t, "metrics:call") = 1
            /\ Count(t, "history:call") = 1
            /\ \E i, j \in 1..Len(log[t]) :
                  i < j /\ log[t][i] = "metrics:call" /\ log[t][j] = "history:call"

----------------------------------------------------------------------------
\* a step of shutdown(): the only step that moves no invocation
ShutdownStep == pc' = pc /\ log' = log

\* C12 as stated: shutdown() gives every Execution that is running, stored or
\* not, status cancelled and an end_time, and leaves the store empty.
C12_ShutdownCancelsEveryRunning ==
    [][ShutdownStep =>
          /\ \A id \in DOMAIN heap :
                heap[id].status = "running" =>
                    /\ heap'[id].status = "cancelled"
                    /\ heap'[id].end_time # None
          /\ active_executions' = {}
          /\ get_active_executions' = {}]_vars

\* C12 (amended): shutdown() gives every Execution of the store that is
\* running status cancelled and an end_time; when it returns the store is
\* empty, so no stored entry is running and get_active_executions() is empty.
C12_ShutdownCancelsStoredRunning ==
    [][ShutdownStep =>
          /\ \A id \in active_executions :
                heap[id].status = "running" =>
                    /\ heap'[id].status = "cancelled"
                    /\ heap'[id].end_time # None
          /\ active_executions' = {}
          /\ \A id \in active_executions' : heap'[id].status # "running"
          /\ get_active_executions' = {}]_vars

\* shutdown() has cancelled a running execution and emptied the store
C12_Witness ==
    /\ active_executions = {}
    /\ \E id \in DOMAIN heap :
          heap[id].status = "cancelled" /\ heap[id].end_time # None

----------------------------------------------------------------------------
\* C13 as stated: after shutdown(), get_execution_status(id) of an id stored
\* before the shutdown returns the record, in a terminal status.
C13_StatusSurvivesShutdown ==
    [][ShutdownStep =>
          \A id \in active_executions :
              /\ get_execution_status(id)' # None
              /\ \A execution \in get_execution_status(id)' :
                    execution.status \in Terminal]_vars

\* C13 (amended): after shutdown(), get_execution_status(id) of every id that
\* was stored before the shutdown returns absent, and keeps returning absent.
C13_StatusAbsentAfterShutdown ==
    /\ [][ShutdownStep =>
            \A id \in active_executions : get_execution_status(id)' = None]_vars
    /\ [][\A id \in DOMAIN heap :
            get_execution_status(id) = None => get_execution_status(id)' = None]_vars

\* an id evicted by shutdown() whose record is not even terminal
C13_Witness ==
    \E id \in DOMAIN heap :
        get_execution_status(id) = None /\ heap[id].status = "pending"

----------------------------------------------------------------------------
\* C14: in every observable state every Execution has a non-null error
\* exactly when its status is failed, and a non-null result exactly when its
\* status is completed, whatever the handler returned.
C14_ErrorAndResultMatchStatus ==
    \A id \in DOMAIN heap :
        /\ heap[id].error # None <=> heap[id].status = "failed"
        /\ heap[id].result # None <=> heap[id].status = "completed"

----------------------------------------------------------------------------
\* C15: every Execution in a terminal status has performance_metrics populated
\* with execution_time, memory_usage and cpu_usage, and performance_metrics is
\* written at most once per Execution.
C15_MetricsAtEveryTerminal ==
    /\ [](\A id \in DOMAIN heap :
            heap[id].status \in Terminal =>
                /\ heap[id].performance_metrics # None
                /\ \A m \in heap[id].performance_metrics :
                      DOMAIN m = {"execution_time", "memory_usage", "cpu_usage"})
    /\ [][\A id \in DOMAIN heap :
            heap[id].performance_metrics # None =>
                heap'[id].performance_metrics = heap[id].performance_metrics]_vars

----------------------------------------------------------------------------
\* C16: the Execution is in the store, pending, when execute_command first
\* suspends; as long as no shutdown() removes it, get_execution_status(id)
\* returns its record, with status pending while the invocation awaits the
\* Compliance Validator and running while it awaits the Category Handler.
C16_VisibleWhileSuspended ==
    /\ [][\A t \in Tasks :
            (pc[t] = "idle" /\ pc'[t] = "await_compliance") =>
                /\ eid'[t] \in active_executions'
                /\ heap'[eid'[t]].status = "pending"]_vars
    /\ [][~ShutdownStep =>
            \A t \in Tasks :
                eid[t] \in active_executions => eid[t] \in active_executions']_vars
    /\ [](\A t \in Tasks :
            eid[t] \in active_executions =>
                \A execution \in get_execution_status(eid[t]) :
                    /\ execution.execution_id = eid[t]
                    /\ pc[t] = "await_compliance" => execution.status = "pending"
                    /\ pc[t] = "await_handler" => execution.status = "running")

\* one invocation awaits the validator and another the handler, both stored
C16_Witness ==
    \E t, u \in Tasks :
        /\ pc[t] = "await_compliance" /\ pc[u] = "await_handler"
        /\ get_execution_status(eid[t]) # None
        /\ get_execution_status(eid[u]) # None

----------------------------------------------------------------------------
\* C17 as stated: a field of an Execution record changes only in a step of the
\* execute_command invocation that created the record; shutdown() and the
\* queries write nothing.
C17_OnlyOwnerWrites ==
    [][\A id \in DOMAIN heap :
          heap'[id] # heap[id] =>
              \E t \in Tasks : eid[t] = id /\ pc'[t] # pc[t]]_vars

\* C17 amended: a record changes only in a step of its own invocation or in
\* shutdown(), and shutdown() writes only status (cancelled) and end_time, and
\* only of records that are stored and running.
C17_OwnerOrShutdownWrites ==
    [][\A id \in DOMAIN heap :
          heap'[id] # heap[id] =>
              \/ \E t \in Tasks : eid[t] = id /\ pc'[t] # pc[t]
              \/ /\ ShutdownStep
                 /\ id \in active_executions
                 /\ heap[id].status = "running"
                 /\ heap'[id].status = "cancelled"
                 /\ heap'[id].end_time # None
                 /\ \A f \in DOMAIN heap[id] \ {"status", "end_time"} :
                       heap'[id][f] = heap[id][f]]_vars

\* shutdown() has cancelled a record whose invocation still awaits its handler,
\* next to a record it removed from the store and left untouched
C17_Witness ==
    \E t, u \in Tasks :
        /\ pc[t] = "await_handler" /\ heap[eid[t]].status = "cancelled"
        /\ pc[u] = "await_compliance" /\ heap[eid[u]].status = "pending"
        /\ active_executions = {}

----------------------------------------------------------------------------
\* C20: outside shutdown() the store only grows: a stored execution is still
\* returned by get_execution_status and listed by get_active_executions after
\* every step that is not a shutdown, whatever its status has become, and
\* get_active_executions lists every stored execution.
C20_StoreGrowsUntilShutdown ==
    /\ [][~ShutdownStep =>
            \A id \in active_executions :
                /\ id \in active_executions'
                /\ get_execution_status(id)' = Some(heap'[id])
                /\ heap'[id] \in get_active_executions']_vars
    /\ [](/\ \A id \in active_executions : heap[id] \in get_active_executions
          /\ Cardinality(get_active_executions) = Cardinality(active_executions))

\* a completed and a failed execution are both still stored and listed
C20_Witness ==
    \E i, j \in active_executions :
        /\ heap[i].status = "completed" /\ heap[j].status = "failed"
        /\ {heap[i], heap[j]} \subseteq get_active_executions
        /\ \A t \in Tasks : pc[t] \notin {"await_compliance", "await_handler"}

----------------------------------------------------------------------------
\* a step of the registration loop
RegisterStep == all_commands' # all_commands

\* the command the loop is about to register, and its key
NextCommand ==
    BotCommand(Head(all_commands).category, Head(all_commands).command_id,
               Head(all_commands).timeout)

NextKey == CommandKey(Head(all_commands).category, Head(all_commands).command_id)

----------------------------------------------------------------------------
\* C19: list_bot_commands(c) returns exactly the registered commands whose
\* category value is c, list_bot_commands() one entry for every registered
\* command, and neither call changes the registry.
C19_ListFiltersByCategoryValue ==
    /\ [](\A commands \in list_commands :
            /\ \A key \in DOMAIN command_registry :
                  LET command == command_registry[key]
                  IN  (list_category = None \/ command.category \in list_category)
                      <=> \E entry \in commands :
                             /\ entry.command_id = command.command_id
                             /\ entry.category = command.category
                             /\ entry.execution_timeout = command.execution_timeout
            /\ \A entry \in commands :
                  /\ CommandKey(entry.category, entry.command_id)
                        \in DOMAIN command_registry
                  /\ \A c \in list_category : entry.category = c
            /\ list_category = None =>
                  Cardinality(commands) = Cardinality(DOMAIN command_registry))
    /\ [][(list_commands' # list_commands \/ list_category' # list_category) =>
             command_registry' = command_registry]_vars

\* "trading_bots" has listed the trading command of a registry that also holds
\* a chatbot command
C19_Witness ==
    /\ list_category = Some("trading_bots")
    /\ \E commands \in list_commands :
          /\ Cardinality(commands) = 1
          /\ \A entry \in commands : entry.command_id = "risk_warden"
    /\ Cardinality(DOMAIN command_registry) = 2

----------------------------------------------------------------------------
\* C21: a handler call that does not return within execution_timeout is treated
\* as a failure, so no Execution stays running for ever because its handler
\* never returns: while an invocation waits for its handler, either the handler
\* answers or the Execution leaves running (failed, with a timeout error).
C21_HandlerTimeoutFails ==
    \A t \in TimedTasks :
        (pc[t] = "await_handler" /\ heap[eid[t]].status = "running")
            ~> (pc[t] # "await_handler" \/ heap[eid[t]].status # "running")

----------------------------------------------------------------------------
\* C22: when every awaited call eventually returns or raises, every
\* execute_command invocation eventually finishes, and an invocation that has
\* returned an Execution returned one with a terminal status and end_time set.
C22_FinishesWithTerminalRecord ==
    /\ \A t \in TimedTasks : (pc[t] # "idle") ~> Finished(t)
    /\ [](\A t \in TimedTasks :
            (pc[t] = "returned" /\ HasExecution(t)) =>
                /\ heap[eid[t]].status \in Terminal
                /\ heap[eid[t]].end_time # None)

\* an invocation whose record shutdown() cancelled and removed has returned it
C22_Witness ==
    \E t \in TimedTasks :
        /\ pc[t] = "returned"
        /\ LogHas(t, "handler:ok")
        /\ heap[eid[t]].status = "completed"
        /\ heap[eid[t]].end_time # None
        /\ get_execution_status(eid[t]) = None

----------------------------------------------------------------------------
\* C23: an Execution that is running, completed or cancelled has
\* compliance_status approved; one with compliance_status rejected or error has
\* status failed; running is entered only from pending, and only when the
\* safety verdict and the Compliance Validator's verdict were both approve.
C23_StatusFollowsCompliance ==
    /\ [](\A id \in DOMAIN heap :
            /\ heap[id].status \in {"running", "completed", "cancelled"} =>
                  heap[id].compliance_status = "approved"
            /\ heap[id].compliance_status \in {"rejected", "error"} =>
                  heap[id].status = "failed")
    /\ [][\A id \in DOMAIN heap :
            (heap'[id].status = "running" /\ heap[id].status # "running") =>
                /\ heap[id].status = "pending"
                /\ \E t \in Tasks :
                      /\ eid[t] = id
                      /\ LogHas(t, "validate_command:approve")'
                      /\ LogHas(t, "safety:approved")']_vars

\* one execution running after both verdicts approved, next to one that failed
\* on a rejecting verdict
C23_Witness ==
    \E i, j \in DOMAIN heap :
        /\ heap[i].status = "running" /\ heap[i].compliance_status = "approved"
        /\ heap[j].status = "failed" /\ heap[j].compliance_status = "rejected"

----------------------------------------------------------------------------
\* C24: end_time is null exactly while the status is pending or running; once
\* set it is never overwritten; and it is not earlier than start_time; also
\* when shutdown() interleaves with an execute_command in flight.
C24_EndTimeSetOnce ==
    /\ [](\A id \in DOMAIN heap :
            /\ heap[id].end_time = None <=> heap[id].status \in {"pending", "running"}
            /\ \A end_time \in heap[id].end_time : end_time >= heap[id].start_time)
    /\ [][\A id \in DOMAIN heap :
            heap[id].end_time # None => heap'[id].end_time = heap[id].end_time]_vars

----------------------------------------------------------------------------
\* C25: retry_policy is never acted on: an invocation calls the Category
\* Handler at most once, and a handler that raised leaves the Execution failed
\* at once, with no second call, although max_retries is positive.
C25_NoRetry ==
    /\ [](\A t \in Tasks :
            /\ Count(t, "handler:call") <= 1
            /\ LogHas(t, "handler:raise") =>
                  /\ heap[eid[t]].command.retry_policy.max_retries > 0
                  /\ heap[eid[t]].status = "failed"
                  /\ Count(t, "handler:call") = 1)
    /\ [][\A t \in Tasks :
            (LogHas(t, "handler:raise")' /\ ~LogHas(t, "handler:raise")) =>
                heap'[eid[t]].status = "failed"]_vars

\* a handler has raised and its invocation is over
C25_Witness ==
    \E t \in Tasks :
        /\ LogHas(t, "handler:raise")
        /\ pc[t] = "returned"
        /\ ErrorContains(heap[eid[t]], MsgBoom)

----------------------------------------------------------------------------
\* C26: stream_execution_results(id) returns status error with "Execution not
\* found" when the id is not in the store; for a stored execution that is
\* completed, failed or cancelled it returns that status with the execution's
\* result and error; it never returns a status that is not terminal.
C26_StreamReturnsTerminalStatus ==
    \A id \in ExecIds, websocket \in BOOLEAN :
        LET r == stream_execution_results(id, websocket)
        IN  /\ id \notin active_executions =>
                  /\ r.status = "error"
                  /\ \E m \in r.error : Contains(m, MsgExecutionNotFound)
            /\ (id \in active_executions /\ heap[id].status \in Terminal) =>
                  /\ r.status = heap[id].status
                  /\ r.result = heap[id].result
                  /\ r.error = heap[id].error
            /\ r.status \notin {"pending", "running"}

----------------------------------------------------------------------------
----------------------------------------------------------------------------
\* the flag is supplied with a falsy value
SuppliedFalsy(parameters, key) ==
    parameters[key] # "absent" /\ ~Truthy(parameters[key])

\* C28: every registered command carries the three safety constraints, so a
\* handler is invoked, or running or completed reached, only when
\* human_approval is truthy and neither audit_enabled nor rollback_enabled is
\* supplied falsy; with an empty parameter map the call ends failed and no
\* handler is invoked.
C28_HandlerNeedsSafetyFlags ==
    /\ \A key \in DOMAIN command_registry :
          command_registry[key].safety_constraints = AllConstraints
    /\ \A t \in Tasks :
          /\ (HasExecution(t)
               /\ \/ HandlerInvoked(t)
                  \/ heap[eid[t]].status \in {"running", "completed"}) =>
                /\ Truthy(args[t].parameters["human_approval"])
                /\ ~SuppliedFalsy(args[t].parameters, "audit_enabled")
                /\ ~SuppliedFalsy(args[t].parameters, "rollback_enabled")
          /\ (HasExecution(t) /\ args[t].parameters = EmptyParams
               /\ pc[t] # "await_compliance") =>
                /\ pc[t] = "returned"
                /\ heap[eid[t]].status = "failed"
                /\ ~HandlerInvoked(t)

\* trading_bots:risk_warden has completed with rollback_enabled given as text,
\* audit_enabled left out
C28_Witness ==
    \E t \in Tasks :
        /\ HasExecution(t)
        /\ heap[eid[t]].command.command_id = "risk_warden"
        /\ heap[eid[t]].status = "completed"
        /\ args[t].parameters["rollback_enabled"] = "text"
        /\ args[t].parameters["audit_enabled"] = "absent"

----------------------------------------------------------------------------
\* C29: shutdown() changes status and end_time of running Executions only:
\* pending and terminal ones keep every field; it empties the store and
\* leaves the command registry and the handler map alone; and an invocation in
\* flight during shutdown does not put its Execution back when it finishes.
C29_ShutdownFrame ==
    /\ [][ShutdownStep =>
            /\ \A id \in DOMAIN heap :
                  /\ heap[id].status # "running" => heap'[id] = heap[id]
                  /\ \A f \in DOMAIN heap[id] \ {"status", "end_time"} :
                        heap'[id][f] = heap[id][f]
            /\ active_executions' = {}
            /\ command_registry' = command_registry
            /\ bot_categories' = bot_categories]_vars
    /\ [][\A t \in Tasks :
            (HasExecution(t) /\ eid[t] \notin active_executions) =>
                eid[t] \notin active_executions']_vars

\* after a shutdown during its handler call an invocation has returned and its
\* Execution is not in the store; a pending one was removed untouched
C29_Witness ==
    \E t, u \in Tasks :
        /\ pc[t] = "returned" /\ LogHas(t, "handler:call")
        /\ eid[t] \notin active_executions
        /\ HasExecution(u) /\ eid[u] \notin active_executions
        /\ heap[eid[u]].status = "pending" /\ heap[eid[u]].end_time = None

----------------------------------------------------------------------------
\* the ParsedCommand that carries the category and command of a call
ParsedCall(call) == ParsedCommand(call.category, call.command_id)

====
